---- MODULE Spec2Model ----
(***************************************************************************)
(* A model of srstar's tar writer (src/src/archive.rs): the 512-byte       *)
(* header codec (Header::new, set_name, copy_into, octal_into,             *)
(* calculate_chksum) and the Archiver (add_file, Drop).                    *)
(*                                                                         *)
(* Bytes are integers 0..255 and byte strings are sequences.  Machine      *)
(* integers wider than TLC's 32-bit integers (u32, u64, i64) are kept as   *)
(* their bit pattern in three little-endian limbs of 30 bits (10 octal     *)
(* digits) each, so that 64-bit values and their octal form are exact.     *)
(***************************************************************************)
EXTENDS Integers, Sequences, FiniteSets, TLC

VARIABLES
    sink,      \* the bytes the destination W has accepted so far
    alive,     \* TRUE while the Archiver value is live (not yet dropped)
    calls,     \* history: one record per add_file call that has returned
    dropLog,   \* history: what Drop's write_all did (<<>> before the drop)
    header,    \* codec harness: the Header.bytes being built
    arg,       \* codec harness: the inputs of the operation under check
    stage      \* codec harness: "init" before the operation, "done" after

vars == <<sink, alive, calls, dropLog, header, arg, stage>>

archiverVars == <<sink, alive, calls, dropLog>>
codecVars == <<header, arg, stage>>

(***************************************************************************)
(* Program constants and bounds                                            *)
(***************************************************************************)
BlockSize == 512
TerminatorLen == 1024

MaxEntries == 2
MaxSmallVal == 70
MaxNameLen == 102

(***************************************************************************)
(* Byte strings                                                            *)
(***************************************************************************)
Zeros(n) == [i \in 1..n |-> 0]

Take(s, n) == SubSeq(s, 1, n)

RECURSIVE SumBytes(_, _, _)
SumBytes(s, lo, hi) ==
    IF lo > hi THEN 0
    ELSE IF lo = hi THEN s[lo]
    ELSE LET mid == (lo + hi) \div 2
         IN  SumBytes(s, lo, mid) + SumBytes(s, mid + 1, hi)

(***************************************************************************)
(* Machine integers as three 30-bit limbs, least significant first         *)
(***************************************************************************)
LimbBase == 8 ^ 10
Limbs == 1..3

FromInt(n) == <<n % LimbBase, n \div LimbBase, 0>>
IsZero(x) == \A i \in Limbs : x[i] = 0
Low3(x) == x[1] % 8
Shr3(x) ==
    [i \in Limbs |->
        (x[i] \div 8) + (IF i + 1 \in Limbs THEN (x[i + 1] % 8) * (LimbBase \div 8) ELSE 0)]
Shl3Add(x, d) ==
    [i \in Limbs |->
        (x[i] % (LimbBase \div 8)) * 8
        + (IF i = 1 THEN d ELSE x[i - 1] \div (LimbBase \div 8))]
\* x mod 8^k
ModPow8(x, k) ==
    [i \in Limbs |->
        IF 10 * i <= k THEN x[i]
        ELSE IF 10 * (i - 1) >= k THEN 0
        ELSE x[i] % (8 ^ (k - 10 * (i - 1)))]
\* the 64-bit two's complement bit pattern of -(n+1), n >= 0  (i64 as formatted by {:o})
NegBits(n) == <<LimbBase - 1 - (n % LimbBase), LimbBase - 1 - (n \div LimbBase), 15>>

(***************************************************************************)
(* The header layout: GnuHeader / OldHeader are #[repr(C)] structs of byte *)
(* arrays, so a field is an offset and a width in Header.bytes.            *)
(***************************************************************************)
f_name   == [off |-> 0,   len |-> 100]
f_mode   == [off |-> 100, len |-> 8]
f_uid    == [off |-> 108, len |-> 8]
f_gid    == [off |-> 116, len |-> 8]
f_size   == [off |-> 124, len |-> 12]
f_mtime  == [off |-> 136, len |-> 12]
f_chksum == [off |-> 148, len |-> 8]
f_magic  == [off |-> 257, len |-> 6]
f_version == [off |-> 263, len |-> 2]

Field(h, f) == SubSeq(h, f.off + 1, f.off + f.len)
InField(i, f) == f.off < i /\ i <= f.off + f.len
SetField(h, f, bs) ==
    SubSeq(h, 1, f.off) \o SubSeq(bs, 1, f.len) \o SubSeq(h, f.off + f.len + 1, Len(h))

\* Header::new: all zero, magic "ustar ", version " \0"
Header_new ==
    SetField(SetField(Zeros(BlockSize), f_magic, <<117, 115, 116, 97, 114, 32>>),
             f_version, <<32, 0>>)

(***************************************************************************)
(* copy_into and set_name                                                  *)
(***************************************************************************)
\* a plausible slip: always keep the last byte of the slot for a NUL
copy_into_nul(slot, bytes) ==
    [i \in 1..Len(slot) |->
        IF i <= Len(bytes) /\ i < Len(slot) THEN bytes[i]
        ELSE IF i = Len(bytes) + 1 \/ i = Len(slot) THEN 0
        ELSE slot[i]]

\* slot.iter_mut().zip(bytes.iter().chain(Some(&0))): the name's bytes, then one
\* 0 byte, as far as the slot reaches; the rest of the slot is not written
copy_into(slot, bytes) ==
    [i \in 1..Len(slot) |->
        IF i <= Len(bytes) THEN bytes[i]
        ELSE IF i = Len(bytes) + 1 THEN 0
        ELSE slot[i]]

set_name(h, path) == SetField(h, f_name, copy_into(Field(h, f_name), path))

(***************************************************************************)
(* octal_into                                                              *)
(***************************************************************************)
Digit(d) == 48 + d

\* format!("{:o}", val): the digits of the value's bit pattern, most significant
\* first, no leading zeros, at least one digit
RECURSIVE fmt_octal(_)
fmt_octal(x) ==
    IF IsZero(Shr3(x)) THEN <<Digit(Low3(x))>>
    ELSE Append(fmt_octal(Shr3(x)), Digit(Low3(x)))

\* a plausible slip: no skip(1), the digits run to the last byte of the field
octal_into_noskip(dst, val) ==
    LET o == fmt_octal(val)
        n == Len(dst)
    IN  [i \in 1..n |->
            LET j == n - i
            IN  IF j < Len(o) THEN o[Len(o) - j] ELSE Digit(0)]

\* a plausible slip: the digits are laid from the left, so an oversized value
\* keeps its high-order digits
octal_into_left(dst, val) ==
    LET o == fmt_octal(val)
        n == Len(dst)
        pad == IF Len(o) < n - 1 THEN n - 1 - Len(o) ELSE 0
    IN  [i \in 1..n |->
            IF i = n THEN dst[n]
            ELSE IF i <= pad THEN Digit(0)
            ELSE o[i - pad]]

\* dst.iter_mut().rev().skip(1).zip(o.bytes().rev().chain(repeat(b'0'))):
\* from the last-but-one byte leftwards, the digits from the least significant,
\* then '0'; the last byte of dst is not written
octal_into(dst, val) ==
    LET o == fmt_octal(val)
        n == Len(dst)
    IN  [i \in 1..n |->
            IF i = n THEN dst[n]
            ELSE LET j == n - 1 - i
                 IN  IF j < Len(o) THEN o[Len(o) - j] ELSE Digit(0)]

SetOctal(h, f, val) == SetField(h, f, octal_into(Field(h, f), val))

(***************************************************************************)
(* calculate_chksum and the header built by add_file                       *)
(***************************************************************************)
\* a plausible slip: the checksum field's own bytes are summed as they are
calculate_chksum_raw(h) == SumBytes(h, 1, Len(h))

\* bytes[0..offset], then len spaces, then bytes[offset+len..], summed as u32
\* (at most 512 * 255, so the u32 sum never wraps)
calculate_chksum(h) ==
    SumBytes(h, 1, f_chksum.off)
    + f_chksum.len * 32
    + SumBytes(h, f_chksum.off + f_chksum.len + 1, Len(h))

\* add_file, lines 119-129: every field but the checksum
header_fields(path, meta) ==
    LET h0 == set_name(Header_new, path)
        h1 == SetOctal(h0, f_mode, meta.mode)
        h2 == SetOctal(h1, f_uid, meta.uid)
        h3 == SetOctal(h2, f_gid, meta.gid)
        h4 == SetOctal(h3, f_size, IF meta.is_file THEN meta.len ELSE FromInt(0))
    IN  SetOctal(h4, f_mtime, meta.mtime)

\* add_file, lines 119-132: the 512 bytes handed to write_all
build_header(path, meta) ==
    LET h == header_fields(path, meta)
    IN  SetOctal(h, f_chksum, FromInt(calculate_chksum(h)))

(***************************************************************************)
(* The collaborators of add_file: what fs::metadata, fs::File::open and    *)
(* io::copy answer for a path.  A path that does not exist fails the       *)
(* metadata lookup; an unreadable regular file fails the open; content is  *)
(* what the file yields when read to the end, which the file system does   *)
(* not tie to the length its metadata reports (a procfs file reports 0, a  *)
(* file may grow between the two calls).                                   *)
(***************************************************************************)
Name_a_txt == <<97, 46, 116, 120, 116>>

Content(n) == [i \in 1..n |-> 1 + ((i * 7) % 250)]

Meta(is_file, len, mode) ==
    [is_file |-> is_file, len |-> FromInt(len), mode |-> FromInt(mode),
     uid |-> FromInt(1000), gid |-> FromInt(100), mtime |-> FromInt(1700000000)]

File_a_txt ==
    [path |-> Name_a_txt, exists |-> TRUE, readable |-> TRUE,
     meta |-> [is_file |-> TRUE, len |-> FromInt(2), mode |-> FromInt(420),
               uid |-> FromInt(0), gid |-> FromInt(0), mtime |-> FromInt(0)],
     content |-> <<104, 105>>]

Files ==
    {File_a_txt,
     [path |-> <<100>>, exists |-> TRUE, readable |-> TRUE,
      meta |-> Meta(FALSE, 4096, 16877), content |-> <<>>],
     [path |-> <<101>>, exists |-> TRUE, readable |-> TRUE,
      meta |-> Meta(TRUE, 0, 33188), content |-> <<>>],
     [path |-> <<98>>, exists |-> TRUE, readable |-> TRUE,
      meta |-> Meta(TRUE, BlockSize, 33188), content |-> Content(BlockSize)],
     [path |-> <<99>>, exists |-> TRUE, readable |-> TRUE,
      meta |-> Meta(TRUE, BlockSize + 1, 33188), content |-> Content(BlockSize + 1)],
     [path |-> <<112>>, exists |-> TRUE, readable |-> TRUE,
      meta |-> Meta(TRUE, 0, 33060), content |-> Content(5)],
     [path |-> <<108>>, exists |-> TRUE, readable |-> FALSE,
      meta |-> Meta(TRUE, 2, 32768), content |-> <<>>],
     [path |-> <<110>>, exists |-> FALSE, readable |-> FALSE,
      meta |-> Meta(FALSE, 0, 0), content |-> <<>>]}

(***************************************************************************)
(* Archiver::add_file and Drop                                             *)
(***************************************************************************)
\* a plausible slip: the padding is sized from the length the metadata reports
content_len_meta(meta, content) ==
    IF meta.is_file THEN meta.len[1] + meta.len[2] * LimbBase ELSE 0

\* len (lines 136-141): what io::copy returns for a regular file, else 0
content_len(meta, content) == IF meta.is_file THEN Len(content) ELSE 0

\* a plausible slip: no `remaining < 512` test, a full block after aligned content
padding_len_always(len) == BlockSize - (len % BlockSize)

\* lines 143-147: remaining = 512 - (len % 512), written only when below 512
padding_len(len) ==
    LET remaining == BlockSize - (len % BlockSize)
    IN  IF remaining < BlockSize THEN remaining ELSE 0

\* The faults a call on file f can meet after its metadata was read, each with
\* the number k of bytes the failing write_all / io::copy had passed to the
\* sink before the error (one cut per write: half of it).
Cuts(n) == {k \in {n \div 2} : k < n}

Faults(f) ==
    {[step |-> "none", k |-> 0]}
    \cup (IF f.exists
          THEN {[step |-> "header", k |-> k] : k \in Cuts(BlockSize)}
          ELSE {})
    \cup (IF f.exists /\ f.meta.is_file /\ f.readable
          THEN {[step |-> "copy", k |-> k] :
                    k \in IF f.content = <<>> THEN {0} ELSE Cuts(Len(f.content))}
               \cup {[step |-> "pad", k |-> k] :
                        k \in Cuts(padding_len(content_len(f.meta, f.content)))}
          ELSE {})

\* a plausible slip: the header write's error is dropped (`let _ =`, as Drop
\* does) and the call carries on with the content and the padding
add_file_noabort(s, f, fault) ==
    IF ~f.exists THEN [sink |-> s, ok |-> FALSE]
    ELSE
        LET hdr == build_header(f.path, f.meta)
            s1 == IF fault.step = "header" THEN s \o Take(hdr, fault.k) ELSE s \o hdr
            len == content_len(f.meta, f.content)
            s2 == IF f.meta.is_file THEN s1 \o f.content ELSE s1
        IN  [sink |-> s2 \o Zeros(padding_len(len)), ok |-> TRUE]

\* add_file (lines 117-150) on sink content s: the sink content it leaves and
\* whether it returns Ok.  Each `?` returns the error at once.
add_file(s, f, fault) ==
    IF ~f.exists THEN [sink |-> s, ok |-> FALSE]                  \* fs::metadata(&path)?
    ELSE
        LET hdr == build_header(f.path, f.meta)
        IN  IF fault.step = "header"                              \* write_all(&header.bytes)?
            THEN [sink |-> s \o Take(hdr, fault.k), ok |-> FALSE]
            ELSE
                LET s1 == s \o hdr
                IN  IF f.meta.is_file /\ ~f.readable              \* fs::File::open(&path)?
                    THEN [sink |-> s1, ok |-> FALSE]
                    ELSE IF f.meta.is_file /\ fault.step = "copy" \* io::copy(..)?
                    THEN [sink |-> s1 \o Take(f.content, fault.k), ok |-> FALSE]
                    ELSE
                        LET len == content_len(f.meta, f.content)
                            s2 == IF f.meta.is_file THEN s1 \o f.content ELSE s1
                            pad == padding_len(len)
                        IN  IF pad > 0 /\ fault.step = "pad"      \* write_all(&buf[..remaining])?
                            THEN [sink |-> s2 \o Take(Zeros(pad), fault.k), ok |-> FALSE]
                            ELSE [sink |-> s2 \o Zeros(pad), ok |-> TRUE]

\* a plausible slip: one zero block instead of two
drop_one_block(s, fault) ==
    IF fault.step = "none"
    THEN [sink |-> s \o Zeros(BlockSize), ok |-> TRUE]
    ELSE [sink |-> s \o Zeros(fault.k % BlockSize), ok |-> FALSE]

\* Drop (lines 153-157): let _ = write_all(&[0; 1024]); the result is discarded
drop(s, fault) ==
    IF fault.step = "none"
    THEN [sink |-> s \o Zeros(TerminatorLen), ok |-> TRUE]
    ELSE [sink |-> s \o Zeros(fault.k), ok |-> FALSE]

DropFaults ==
    {[step |-> "none", k |-> 0]}
    \cup {[step |-> "terminator", k |-> k] : k \in Cuts(TerminatorLen)}

\* a slip the borrow checker rules out: a use of the Archiver after its drop
BorrowableAlways == TRUE

\* add_file takes &mut self and Drop runs on the owned value: both need the
\* Archiver live
Borrowable == alive

Init ==
    /\ sink = <<>>
    /\ alive = TRUE
    /\ calls = <<>>
    /\ dropLog = <<>>
    /\ header = <<>>
    /\ arg = [op |-> "none"]
    /\ stage = "init"

AddFile ==
    /\ Borrowable
    /\ Len(calls) < MaxEntries
    /\ \E f \in Files : \E fault \in Faults(f) :
        LET r == add_file(sink, f, fault)
        IN  /\ sink' = r.sink
            /\ calls' = Append(calls, [file |-> f, fault |-> fault.step, ok |-> r.ok,
                                       start |-> Len(sink), end |-> Len(r.sink)])
    /\ UNCHANGED <<alive, dropLog, codecVars>>

Drop ==
    /\ alive
    /\ \E fault \in DropFaults :
        LET r == drop(sink, fault)
        IN  /\ sink' = r.sink
            /\ dropLog' = <<[ok |-> r.ok, start |-> Len(sink)]>>
    /\ alive' = FALSE
    /\ UNCHANGED <<calls, codecVars>>

Next == AddFile \/ Drop

Spec == Init /\ [][Next]_vars

\* The Archiver is an owned value: leaving its scope runs Drop.
LiveSpec == Spec /\ WF_vars(Drop)

(***************************************************************************)
(* The reader's side, used to state the properties: an octal field is read *)
(* as ASCII octal digits up to the first byte that is not one.             *)
(***************************************************************************)
IsOctDigit(b) == 48 <= b /\ b <= 55

RECURSIVE DecodeAcc(_, _, _)
DecodeAcc(bs, i, acc) ==
    IF i > Len(bs) \/ ~IsOctDigit(bs[i]) THEN acc
    ELSE DecodeAcc(bs, i + 1, Shl3Add(acc, bs[i] - 48))

DecodeOctal(bs) == DecodeAcc(bs, 1, FromInt(0))

\* val is below 8^k: it has at most k octal digits
Fits(val, k) == ModPow8(val, k) = val

\* g and h agree on every byte outside field f
SameOutside(g, h, f) == SetField(g, f, Zeros(f.len)) = SetField(h, f, Zeros(f.len))

UntouchedOutside(h, f) == SameOutside(h, Header_new, f)

(***************************************************************************)
(* Inputs of the codec harness                                             *)
(***************************************************************************)
U32Max == <<LimbBase - 1, 3, 0>>
U64Max == <<LimbBase - 1, LimbBase - 1, 15>>
InU32(x) == x[3] = 0 /\ x[2] < 4

OctalVals ==
    {FromInt(n) : n \in 0..MaxSmallVal}
    \cup {FromInt(8 ^ 7 - 1), FromInt(8 ^ 7), FromInt(8 ^ 7 + 1), FromInt(2147483647),
          U32Max, <<LimbBase - 1, 7, 0>>, <<0, 8, 0>>, <<5, 8, 0>>,
          U64Max, NegBits(1)}

\* mode, uid, gid and the checksum are u32; size is u64; mtime is i64
OctalArgs ==
    {[op |-> "octal", field |-> f, val |-> v] :
        f \in {f_mode, f_uid, f_gid, f_chksum}, v \in {x \in OctalVals : InU32(x)}}
    \cup {[op |-> "octal", field |-> f, val |-> v] :
            f \in {f_size, f_mtime}, v \in OctalVals}

NameBytes(n, seed) == [i \in 1..n |-> 97 + ((i * seed) % 26)]
NameArgs ==
    {[op |-> "name", path |-> NameBytes(n, seed)] : n \in 0..MaxNameLen, seed \in 1..2}

HeaderArgs ==
    {[op |-> "build", path |-> p,
      meta |-> [is_file |-> r, len |-> l, mode |-> m, uid |-> u, gid |-> g, mtime |-> t]] :
        p \in {<<>>, Name_a_txt, [i \in 1..100 |-> 255], NameBytes(101, 1)},
        r \in BOOLEAN,
        l \in {FromInt(0), FromInt(2), <<5, 8, 0>>},
        m \in {FromInt(33188), FromInt(16877), U32Max},
        u \in {FromInt(0), FromInt(1000)},
        g \in {FromInt(0), FromInt(1000)},
        t \in {FromInt(0), FromInt(1700000000), NegBits(0)}}

IdleArchiver ==
    /\ sink = <<>>
    /\ alive = TRUE
    /\ calls = <<>>
    /\ dropLog = <<>>

(***************************************************************************)
(* SpecOctal: octal_into applied to one numeric field of a fresh header    *)
(***************************************************************************)
InitOctal ==
    /\ IdleArchiver
    /\ header = Header_new
    /\ arg \in OctalArgs
    /\ stage = "init"

ApplyOctal ==
    /\ stage = "init"
    /\ arg.op = "octal"
    /\ header' = SetOctal(header, arg.field, arg.val)
    /\ stage' = "done"
    /\ UNCHANGED <<arg, archiverVars>>

SpecOctal == InitOctal /\ [][ApplyOctal]_vars

(***************************************************************************)
(* SpecName: set_name applied to a fresh header                            *)
(***************************************************************************)
InitName ==
    /\ IdleArchiver
    /\ header = Header_new
    /\ arg \in NameArgs
    /\ stage = "init"

ApplyName ==
    /\ stage = "init"
    /\ arg.op = "name"
    /\ header' = set_name(header, arg.path)
    /\ stage' = "done"
    /\ UNCHANGED <<arg, archiverVars>>

SpecName == InitName /\ [][ApplyName]_vars

(***************************************************************************)
(* SpecHeader: the header add_file builds from a path and its metadata     *)
(***************************************************************************)
InitHeader ==
    /\ IdleArchiver
    /\ header = Header_new
    /\ arg \in HeaderArgs
    /\ stage = "init"

ApplyBuild ==
    /\ stage = "init"
    /\ arg.op = "build"
    /\ header' = build_header(arg.path, arg.meta)
    /\ stage' = "done"
    /\ UNCHANGED <<arg, archiverVars>>

SpecHeader == InitHeader /\ [][ApplyBuild]_vars

(***************************************************************************)
(* Properties of the codec                                                 *)
(***************************************************************************)
BlankedSum(h) == SumBytes(SetField(h, f_chksum, [i \in 1..f_chksum.len |-> 32]), 1, Len(h))

\* C2: in every header add_file builds, the octal value read from the checksum
\* field equals the sum of the 512 bytes with the checksum field read as eight
\* spaces, and every byte outside the checksum field is as it was when the
\* checksum was taken.
ChecksumMatchesHeader ==
    (stage = "done" /\ arg.op = "build") =>
        /\ Len(header) = BlockSize
        /\ DecodeOctal(Field(header, f_chksum)) = FromInt(BlankedSum(header))
        /\ header[f_chksum.off + f_chksum.len] = 0
        /\ SameOutside(header, header_fields(arg.path, arg.meta), f_chksum)

ChecksumWitness ==
    /\ stage = "done"
    /\ arg.op = "build"
    /\ arg.path = [i \in 1..100 |-> 255]
    /\ arg.meta.mtime = NegBits(0)
    /\ BlankedSum(header) > 100 * 255

\* C7: for a value below 8^(w-1), octal_into leaves w-1 ASCII octal digits
\* followed by a 0x00 byte in the field, and reading the digits as octal gives
\* the value back.
OctalRoundTrip ==
    (stage = "done" /\ arg.op = "octal" /\ Fits(arg.val, arg.field.len - 1)) =>
        LET bs == Field(header, arg.field)
            w == arg.field.len
        IN  /\ \A i \in 1..(w - 1) : IsOctDigit(bs[i])
            /\ bs[w] = 0
            /\ DecodeOctal(bs) = arg.val

OctalRoundTripWitness ==
    /\ stage = "done"
    /\ arg.op = "octal"
    /\ arg.field = f_size
    /\ arg.val = <<LimbBase - 1, 7, 0>>
    /\ Field(header, f_size) = [i \in 1..12 |-> IF i = 12 THEN 0 ELSE 55]

\* C9: for a value of more than w-1 octal digits, the field reads as the value
\* modulo 8^(w-1), its last byte is still 0x00 and no byte outside the field
\* differs from the fresh header.
OctalTruncation ==
    (stage = "done" /\ arg.op = "octal" /\ ~Fits(arg.val, arg.field.len - 1)) =>
        LET bs == Field(header, arg.field)
            w == arg.field.len
        IN  /\ \A i \in 1..(w - 1) : IsOctDigit(bs[i])
            /\ bs[w] = 0
            /\ DecodeOctal(bs) = ModPow8(arg.val, w - 1)
            /\ UntouchedOutside(header, arg.field)

OctalTruncationWitness ==
    /\ stage = "done"
    /\ arg.op = "octal"
    /\ arg.field = f_size
    /\ arg.val = <<5, 8, 0>>
    /\ DecodeOctal(Field(header, f_size)) = FromInt(5)

\* C8: set_name leaves in the 100-byte name field the name followed only by
\* zero bytes when the name is shorter than 100 bytes, and exactly the first
\* 100 bytes of the name otherwise; no byte outside the name field changes.
NameTruncateAndPad ==
    (stage = "done" /\ arg.op = "name") =>
        LET bs == Field(header, f_name)
            n == Len(arg.path)
        IN  /\ n < f_name.len =>
                /\ Take(bs, n) = arg.path
                /\ \A i \in (n + 1)..f_name.len : bs[i] = 0
            /\ n >= f_name.len => bs = Take(arg.path, f_name.len)
            /\ UntouchedOutside(header, f_name)

NameWitness ==
    /\ stage = "done"
    /\ arg.op = "name"
    /\ Len(arg.path) = f_name.len + 1
    /\ Field(header, f_name) = Take(arg.path, f_name.len)
    /\ header[f_name.len] # 0

(***************************************************************************)
(* Properties of the Archiver                                              *)
(***************************************************************************)
Written(c) == SubSeq(sink, c.start + 1, c.end)
HeaderOf(c) == build_header(c.file.path, c.file.meta)
Regular(c) == c.file.meta.is_file
\* zero bytes up to the next multiple of 512
PadTo512(L) == (512 - (L % 512)) % 512
Record(c) ==
    HeaderOf(c)
    \o (IF Regular(c) THEN c.file.content ELSE <<>>)
    \o Zeros(PadTo512(IF Regular(c) THEN Len(c.file.content) ELSE 0))

RECURSIVE Records(_, _)
Records(cs, n) == IF n = 0 THEN <<>> ELSE Records(cs, n - 1) \o Record(cs[n])

\* C1: a successful add_file of a regular file that streams L bytes appends
\* 512 + L + ((512 - L mod 512) mod 512) bytes, a multiple of 512: 512 header
\* bytes, the L content bytes, then only zero bytes.
RegularEntryLength ==
    \A i \in 1..Len(calls) :
        LET c == calls[i]
            L == Len(c.file.content)
            w == Written(c)
        IN  (c.ok /\ Regular(c)) =>
                /\ Len(w) = 512 + L + ((512 - (L % 512)) % 512)
                /\ Len(w) % 512 = 0
                /\ SubSeq(w, 513, 512 + L) = c.file.content
                /\ \A j \in (512 + L + 1)..Len(w) : w[j] = 0

RegularEntryWitness ==
    /\ Len(calls) = 2
    /\ calls[1].ok /\ calls[1].file = File_a_txt
    /\ calls[1].end - calls[1].start = 1024
    /\ calls[2].ok /\ Len(calls[2].file.content) = BlockSize
    /\ calls[2].end - calls[2].start = 1024
    /\ ~alive /\ Len(sink) = 2048 + TerminatorLen

\* C3: when every add_file call so far succeeded, the sink holds the entries'
\* records (header, content, padding) one after the other in call order, and
\* every record starts at a multiple of 512.
EntriesInCallOrder ==
    (\A i \in 1..Len(calls) : calls[i].ok) =>
        /\ \A i \in 1..Len(calls) :
              /\ calls[i].start % 512 = 0
              /\ calls[i].start = (IF i = 1 THEN 0 ELSE calls[i - 1].end)
              /\ Take(Written(calls[i]), 512) = HeaderOf(calls[i])
        /\ LET n == Len(calls)
               e == IF n = 0 THEN 0 ELSE calls[n].end
           IN  Take(sink, e) = Records(calls, n)

EntriesInCallOrderWitness ==
    /\ Len(calls) = 2
    /\ calls[1].ok /\ calls[2].ok
    /\ calls[1].file # calls[2].file
    /\ Regular(calls[1]) /\ Len(calls[1].file.content) = 5
    /\ calls[2].start = 1024
    /\ Take(sink, 512) # SubSeq(sink, 1025, 1536)

\* C4 as claimed: once dropped, the sink ends with exactly the 1024 zero bytes
\* the drop appended.
TerminatorAlwaysAppended ==
    ~alive =>
        /\ Len(sink) = dropLog[1].start + 1024
        /\ SubSeq(sink, dropLog[1].start + 1, Len(sink)) = Zeros(1024)

\* C4 amended: the drop makes one write of 1024 zero bytes.  When the sink
\* accepts it, exactly 1024 zero bytes are appended whatever the add_file
\* calls before did (with no call before, the stream is 1024 zero bytes); when
\* the sink fails it, the error is discarded and fewer than 1024 zero bytes
\* were appended.
TerminatorWhenSinkAccepts ==
    ~alive =>
        LET d == dropLog[1]
            w == SubSeq(sink, d.start + 1, Len(sink))
        IN  /\ d.start = (IF calls = <<>> THEN 0 ELSE calls[Len(calls)].end)
            /\ \A j \in 1..Len(w) : w[j] = 0
            /\ d.ok => Len(w) = 1024
            /\ (d.ok /\ calls = <<>>) => sink = Zeros(1024)
            /\ ~d.ok => Len(w) < 1024

TerminatorWitness ==
    /\ ~alive
    /\ dropLog[1].ok
    /\ Len(calls) = 2
    /\ calls[1].ok /\ ~calls[2].ok /\ calls[2].fault = "copy"
    /\ Len(sink) = dropLog[1].start + 1024
    /\ dropLog[1].start % 512 # 0

FailedStep ==
    LET c == calls'[Len(calls')]
        w == SubSeq(sink', Len(sink) + 1, Len(sink'))
        hdr == HeaderOf(c)
        body == IF Regular(c) THEN c.file.content ELSE <<>>
        failed == \/ ~c.file.exists
                  \/ c.fault # "none"
                  \/ Regular(c) /\ ~c.file.readable
    IN  (Len(calls') = Len(calls) + 1 /\ failed) =>
            /\ ~c.ok
            /\ Take(sink', Len(sink)) = sink
            /\ ~c.file.exists => w = <<>>
            /\ (c.file.exists /\ c.fault = "header") =>
                    Len(w) < 512 /\ w = Take(hdr, Len(w))
            /\ (c.file.exists /\ c.fault = "none") => w = hdr
            /\ c.fault = "copy" =>
                    /\ 512 <= Len(w) /\ Len(w) <= 512 + Len(body)
                    /\ w = Take(hdr \o body, Len(w))
            /\ c.fault = "pad" =>
                    /\ 512 + Len(body) <= Len(w)
                    /\ Len(w) < 512 + Len(body) + PadTo512(Len(body))
                    /\ w = hdr \o body \o Zeros(Len(w) - 512 - Len(body))

FailureAborts == [][FailedStep]_vars

FailureWitness ==
    /\ Len(calls) = 2
    /\ calls[1].ok
    /\ ~calls[2].ok /\ calls[2].fault = "copy"
    /\ calls[2].end - calls[2].start = 512 + 256
    /\ Take(sink, calls[1].end) = Record(calls[1])

\* C10 as claimed: after a successful add_file the size field reads as the
\* number of content bytes written after the header, which is the length the
\* metadata reported for a regular file; a non-regular entry has size 0 and
\* is 512 bytes in all.
SizeFieldMatchesContent ==
    \A i \in 1..Len(calls) :
        LET c == calls[i]
            size == DecodeOctal(Field(Take(Written(c), 512), f_size))
        IN  c.ok =>
                /\ Regular(c) =>
                      /\ size = FromInt(Len(c.file.content))
                      /\ c.file.meta.len = FromInt(Len(c.file.content))
                      /\ c.end - c.start = 512 + Len(c.file.content)
                                           + PadTo512(Len(c.file.content))
                /\ ~Regular(c) =>
                      /\ size = FromInt(0)
                      /\ c.end - c.start = 512

====
